---- MODULE Spec2Model ----
(***************************************************************************)
(* Model of the FastAPI shop backend: the review handlers and the rating   *)
(* recomputation (app/routers/reviews.py), the token refresh endpoints     *)
(* (app/routers/users.py) and the product ownership checks                 *)
(* (app/routers/products.py).  The store holds committed rows only; every  *)
(* `await db.commit()` of a handler is one step of that request.           *)
(***************************************************************************)
EXTENDS Integers, Sequences, FiniteSets, TLC

VARIABLES
    products,   \* products table: id (index) -> row
    reviews,    \* reviews table: id (index) -> row
    req,        \* review requests in flight, one record per slot
    users,      \* users table: id (index) -> row
    reg,        \* create_user requests in flight, one record per slot
    now,        \* the clock jwt.decode compares exp with
    held,       \* the refresh token a client keeps from its login
    used,       \* how often refresh-token has exchanged `held`
    resp,       \* the response of the users request that has just completed
    categories, \* categories table: id (index) -> row
    presp       \* the response of the latest products request

vars == <<products, reviews, req, users, reg, now, held, used, resp,
          categories, presp>>
reviewVars == <<products, reviews, req>>
authVars == <<users, reg, now, held, used, resp>>
catalogVars == <<categories, presp>>

(* ------------------------------ bounds --------------------------------- *)
NumReq == 2          \* request slots that may be in flight together
NumBuyers == 2       \* buyers whose requests interleave
NumBuyersSeq == 3    \* buyers of the one-at-a-time runs
NumProducts == 1     \* product rows present in the store
MaxReviews == 3      \* cap on review rows ever inserted
MaxUsers == 2        \* cap on user rows ever inserted
MaxProducts == 2     \* cap on product rows ever inserted
NumSellers == 2      \* sellers (current_user.id of the product handlers)
NumCategories == 1   \* category rows present in the store
MaxTime == 3         \* last tick of the clock
MaxUses == 2         \* exchanges of one refresh token that are counted

(* schemas.py: grade: int = Field(ge=1, le=5) *)
MinGrade == 1
MaxGrade == 5
ValidGrade(g) == g >= MinGrade /\ g <= MaxGrade
Grades == {g \in {4, 5} : ValidGrade(g)}        \* grades of interleaved runs
GradesSeq == {g \in {1, 4, 5} : ValidGrade(g)}  \* grades of one-at-a-time runs

Slots == 1..NumReq
Buyers == 1..NumBuyers
BuyersSeq == 1..NumBuyersSeq
NULL == "NULL"

(* ------------------------- rational numbers ---------------------------- *)
RECURSIVE GCD(_, _)
GCD(a, b) == IF b = 0 THEN a ELSE GCD(b, a % b)

\* a rating value n/d in lowest terms; 0.0 is <<0, 1>>
Ratio(n, d) == LET g == GCD(n, d) IN <<n \div g, d \div g>>
Zero == <<0, 1>>

RECURSIVE IsPow2(_)
IsPow2(d) == IF d = 1 THEN TRUE ELSE IF d % 2 = 1 THEN FALSE ELSE IsPow2(d \div 2)

(* ------------------------------ store ---------------------------------- *)
\* rows selected by  product_id == p /\ is_active == True
ActiveOf(revs, p) ==
    {i \in 1..Len(revs) : revs[i].product_id = p /\ revs[i].is_active}

RECURSIVE SumGrade(_, _)
SumGrade(revs, S) ==
    IF S = {} THEN 0
    ELSE LET i == CHOOSE x \in S : TRUE
         IN revs[i].grade + SumGrade(revs, S \ {i})

\* the average with the is_active filter left out
AvgGradeAll(revs, p) ==
    LET S == {i \in 1..Len(revs) : revs[i].product_id = p}
    IN IF S = {} THEN NULL ELSE Ratio(SumGrade(revs, S), Cardinality(S))

\* select(func.avg(Review.grade)).where(product_id == p, is_active == True)
\* SQL avg over no rows is NULL
AvgGrade(revs, p) ==
    LET S == ActiveOf(revs, p)
    IN IF S = {} THEN NULL ELSE Ratio(SumGrade(revs, S), Cardinality(S))

\* avg_rating = result.scalar() or 0.0
AvgRating(revs, p) ==
    LET a == AvgGrade(revs, p) IN IF a = NULL \/ a = Zero THEN Zero ELSE a

\* select(Product).where(id == p, is_active == True).first()
ActiveProduct(prods, p) == p \in 1..Len(prods) /\ prods[p].is_active

\* the duplicate check restricted to active rows
UserReviewActive(revs, u, p) ==
    \E i \in 1..Len(revs) :
        revs[i].product_id = p /\ revs[i].user_id = u /\ revs[i].is_active

\* select(Review).where(product_id == p, user_id == u).first()
UserReview(revs, u, p) ==
    \E i \in 1..Len(revs) : revs[i].product_id = p /\ revs[i].user_id = u

\* a reviews table without the unique constraint
UniqueViolationNone(revs, u, p) == FALSE

\* UniqueConstraint("user_id", "product_id") checked by the store at commit
UniqueViolation(revs, u, p) ==
    \E i \in 1..Len(revs) : revs[i].product_id = p /\ revs[i].user_id = u

\* the review lookup with the is_active filter left out
ActiveReviewAny(revs, rid) == rid \in 1..Len(revs)

\* select(Review).where(id == rid, is_active == True).first()
ActiveReview(revs, rid) == rid \in 1..Len(revs) /\ revs[rid].is_active

(* --------------------------- request slots ----------------------------- *)
Terminal == {"idle", "ok", "e404", "e409", "e500"}

NoReq == [pc |-> "idle", op |-> "none", user |-> 0, product |-> 0,
          grade |-> 0, review |-> 0, avg |-> Zero, loaded |-> NULL]

InFlight(r) == req[r].pc \notin Terminal
Quiet == \A r \in Slots : ~InFlight(r)

\* a finished request leaves only its outcome behind
Finish(outcome) == [NoReq EXCEPT !.pc = outcome]


(* ======================= users and tokens ============================== *)
\* schemas.py: role pattern ^(admin|buyer|seller)$
Roles == {"admin", "buyer", "seller"}
Emails == {"a@x.com", "b@x.com"}
Passwords == {"password123"}
WrongPassword == "wrongpass"

SECRET_KEY == "secret"
OTHER_KEY == "forged"
NoClaims == [sub |-> NULL, role |-> NULL, id |-> 0, token_type |-> NULL, exp |-> 0]
NoToken == [payload |-> NoClaims, key |-> "none"]       \* no token at all
Garbage == [payload |-> NoClaims, key |-> "not.a.jwt"]  \* a string that is no JWT

\* lifetimes of the two token kinds, in ticks: access short, refresh long
AccessLife == 1
RefreshLife == 2

\* hash_password / verify_password: a one-way hash that verifies only the
\* password it was made from
hash_password(pw) == <<"hash", pw>>
verify_password(pw, h) == h = hash_password(pw)

\* jwt.encode of the claims {sub, role, id, token_type, exp} under SECRET_KEY
create_access_token(data) ==
    [payload |-> [sub |-> data.sub, role |-> data.role, id |-> data.id,
                  token_type |-> "access", exp |-> now + AccessLife],
     key |-> SECRET_KEY]
create_refresh_token(data) ==
    [payload |-> [sub |-> data.sub, role |-> data.role, id |-> data.id,
                  token_type |-> "refresh", exp |-> now + RefreshLife],
     key |-> SECRET_KEY]

\* jwt.decode(token, SECRET_KEY, algorithms=[ALGORITHM]): the signature is
\* verified first, then exp; exp <= now is expired
decode(t) ==
    IF t.key # SECRET_KEY THEN [error |-> "PyJWTError", claims |-> NoClaims]
    ELSE IF t.payload.exp <= now
         THEN [error |-> "ExpiredSignatureError", claims |-> NoClaims]
    ELSE [error |-> NULL, claims |-> t.payload]

\* a refresh token that may be exchanged only once
refresh_subject_once(t) ==
    LET d == decode(t)
        payload == d.claims
    IN IF t = held /\ used > 0 THEN NULL
       ELSE IF d.error \in {"PyJWTError", "ExpiredSignatureError"} THEN NULL
       ELSE IF payload.sub = NULL \/ payload.token_type # "refresh" THEN NULL
       ELSE payload.sub

\* a refresh endpoint that accepts either kind of token
refresh_subject_any_type(t) ==
    LET d == decode(t)
        payload == d.claims
    IN IF d.error \in {"PyJWTError", "ExpiredSignatureError"} THEN NULL
       ELSE IF payload.sub = NULL THEN NULL
       ELSE payload.sub

\* users.py 85-100 and 135-150: the email of a valid refresh token, or NULL
\* where the handler raises credentials_exception
refresh_subject(t) ==
    LET d == decode(t)
        payload == d.claims
    IN IF d.error \in {"PyJWTError", "ExpiredSignatureError"} THEN NULL
       ELSE IF payload.sub = NULL \/ payload.token_type # "refresh" THEN NULL
       ELSE payload.sub

\* the user lookup with the is_active filter left out
active_user_any(e) ==
    LET S == {i \in 1..Len(users) : users[i].email = e}
    IN IF S = {} THEN 0 ELSE CHOOSE i \in S : \A j \in S : i <= j

\* select(User).where(email == e, is_active == True).first(): the id, or 0
active_user(e) ==
    LET S == {i \in 1..Len(users) : users[i].email = e /\ users[i].is_active}
    IN IF S = {} THEN 0 ELSE CHOOSE i \in S : \A j \in S : i <= j

\* the users table keeps emails unique: a second row with the email is
\* refused at commit
unique_email_violation(e) == \E i \in 1..Len(users) : users[i].email = e

\* a registration that does not look for the email
email_taken_never(e) == FALSE

\* select(User).where(email == e).first() is not None
email_taken(e) == \E i \in 1..Len(users) : users[i].email = e

\* claims copied from the presented token instead of the user row
token_data_from_old(id, t) ==
    [sub |-> t.payload.sub, role |-> t.payload.role, id |-> t.payload.id]

\* data={"sub": user.email, "role": user.role, "id": user.id}
token_data(id, t) ==
    [sub |-> users[id].email, role |-> users[id].role, id |-> id]

\* the OAuth2PasswordRequestForm of a login; NoForm for the other requests
NoForm == [username |-> NULL, password |-> NULL]

NoResp == [ep |-> "none", form |-> NoForm, presented |-> NoToken, status |-> 0,
           token |-> NoToken, access |-> NoToken]
Unauthorized(ep, t) == [NoResp EXCEPT !.ep = ep, !.presented = t, !.status = 401]

NoReg == [pc |-> "idle", email |-> NULL, password |-> NULL, role |-> NULL]
RegSlots == 1..NumReq

InitAuth ==
    /\ users = <<>>
    /\ reg = [r \in RegSlots |-> NoReg]
    /\ now = 0
    /\ held = NoToken
    /\ used = 0
    /\ resp = NoResp

(* ------------------------ create_user (POST /users/) ------------------- *)
\* lines 25-29: 400 when the email is registered
create_user_check(r, e, pw, role) ==
    /\ reg[r].pc \in {"idle", "201", "400", "500"}
    /\ Len(users) + Cardinality({x \in RegSlots : reg[x].pc = "insert"}) < MaxUsers
    /\ reg' = [reg EXCEPT ![r] =
         IF email_taken(e) THEN [NoReg EXCEPT !.pc = "400"]
         ELSE [pc |-> "insert", email |-> e, password |-> pw, role |-> role]]
    /\ resp' = NoResp
    /\ UNCHANGED <<users, now, held, used>>

\* lines 32-41: insert and commit; the users table keeps emails unique
create_user_commit(r) ==
    /\ reg[r].pc = "insert"
    /\ IF unique_email_violation(reg[r].email)
       THEN /\ reg' = [reg EXCEPT ![r] = [NoReg EXCEPT !.pc = "500"]]
            /\ UNCHANGED users
       ELSE /\ users' = Append(users,
                 [email |-> reg[r].email,
                  hashed_password |-> hash_password(reg[r].password),
                  role |-> reg[r].role, is_active |-> TRUE])
            /\ reg' = [reg EXCEPT ![r] = [NoReg EXCEPT !.pc = "201"]]
    /\ resp' = NoResp
    /\ UNCHANGED <<now, held, used>>

(* --------------------------- login (POST /users/token) ----------------- *)
login(e, pw) ==
    LET id == active_user(e)
    IN /\ IF id = 0 \/ ~verify_password(pw, users[id].hashed_password)
          THEN /\ resp' = [Unauthorized("login", NoToken) EXCEPT
                                !.form = [username |-> e, password |-> pw]]
               /\ UNCHANGED <<held, used>>
          ELSE LET data == [sub |-> users[id].email, role |-> users[id].role,
                            id |-> id]
               IN /\ resp' = [ep |-> "login",
                              form |-> [username |-> e, password |-> pw],
                              presented |-> NoToken, status |-> 200,
                              token |-> create_refresh_token(data),
                              access |-> create_access_token(data)]
                  /\ held' = create_refresh_token(data)
                  /\ used' = 0
       /\ UNCHANGED <<users, reg, now>>

(* ------------------ refresh_token (POST /users/refresh-token) ---------- *)
refresh_token(t) ==
    LET email == refresh_subject(t)
        id == IF email = NULL THEN 0 ELSE active_user(email)
    IN /\ resp' = IF id = 0 THEN Unauthorized("refresh-token", t)
                  ELSE [ep |-> "refresh-token", form |-> NoForm,
                        presented |-> t, status |-> 200,
                        token |-> create_refresh_token(token_data(id, t)),
                        access |-> NoToken]
       /\ used' = IF id # 0 /\ t = held /\ used < MaxUses THEN used + 1 ELSE used
       /\ UNCHANGED <<users, reg, now, held>>

(* ---------------------- new_token (POST /users/new_token) -------------- *)
new_token(t) ==
    LET email == refresh_subject(t)
        id == IF email = NULL THEN 0 ELSE active_user(email)
    IN /\ resp' = IF id = 0 THEN Unauthorized("new_token", t)
                  ELSE [ep |-> "new_token", form |-> NoForm,
                        presented |-> t, status |-> 200,
                        token |-> create_access_token(token_data(id, t)),
                        access |-> NoToken]
       /\ UNCHANGED <<users, reg, now, held, used>>

(* ------------------------------ environment ---------------------------- *)
\* tokens a client can put in the request body: the one it holds, the one
\* it has just been sent, either of them re-signed with another key, or junk
Forge(t) == IF t = NoToken THEN Garbage ELSE [t EXCEPT !.key = OTHER_KEY]
Presentable ==
    {held, resp.token, resp.access, Forge(held), Garbage} \ {NoToken}

Tick ==
    /\ now < MaxTime
    /\ now' = now + 1
    /\ resp' = NoResp
    /\ UNCHANGED <<users, reg, held, used>>

\* a user row is deactivated or given another role directly in the store
StoreDeactivate(i) ==
    /\ users[i].is_active
    /\ users' = [users EXCEPT ![i].is_active = FALSE]
    /\ resp' = NoResp
    /\ UNCHANGED <<reg, now, held, used>>

StoreSetRole(i, role) ==
    /\ users[i].role # role
    /\ users' = [users EXCEPT ![i].role = role]
    /\ resp' = NoResp
    /\ UNCHANGED <<reg, now, held, used>>

NextAuth ==
    /\ \/ \E e \in Emails, pw \in Passwords, role \in Roles :
             create_user_check(1, e, pw, role)
       \/ create_user_commit(1)
       \/ \E e \in Emails, pw \in Passwords \cup {WrongPassword} : login(e, pw)
       \/ \E t \in Presentable : refresh_token(t)
       \/ \E t \in Presentable : new_token(t)
       \/ Tick
       \/ \E i \in 1..Len(users) : StoreDeactivate(i)
       \/ \E i \in 1..Len(users), role \in Roles : StoreSetRole(i, role)
    /\ UNCHANGED <<reviewVars, catalogVars>>


(* ------------------------------ Init ----------------------------------- *)
\* A catalogue of NumProducts active products, not yet reviewed.
\* ProductModel(**product.model_dump(), seller_id=current_user.id):
\* is_active defaults to True and rating to 0.0
NewProduct(name, c, s) ==
    [name |-> name, category_id |-> c, seller_id |-> s, is_active |-> TRUE,
     rating |-> Zero]

NoPResp == [ep |-> "none", actor |-> 0, product |-> 0, status |-> 0]

InitCatalog ==
    /\ categories = [c \in 1..NumCategories |-> [is_active |-> TRUE]]
    /\ presp = NoPResp

InitNoReviews ==
    /\ reviews = <<>>
    /\ req = [r \in Slots |-> NoReq]

InitReviews ==
    /\ products = [p \in 1..NumProducts |-> NewProduct("n1", 1, 1)]
    /\ InitNoReviews
    /\ InitAuth
    /\ InitCatalog

InitUsers ==
    /\ products = <<>>
    /\ InitNoReviews
    /\ InitAuth
    /\ InitCatalog


(* ============================ products ================================= *)
Sellers == 1..NumSellers
Names == {"n1", "n2"}

\* select(Category).where(id == c, is_active == True).first()
ActiveCategory(c) == c \in 1..Len(categories) /\ categories[c].is_active

\* an ownership test that lets every seller through
owner_any(row, s) == TRUE

\* db_product.seller_id != current_user.id raises 403
owner(row, s) == row.seller_id = s

PResp(ep, s, p, status) == [ep |-> ep, actor |-> s, product |-> p, status |-> status]

\* products.py 94-114
create_product(s, name, c) ==
    /\ Len(products) < MaxProducts
    /\ IF ~ActiveCategory(c)
       THEN /\ presp' = PResp("create_product", s, 0, 400)
            /\ UNCHANGED products
       ELSE /\ products' = Append(products, NewProduct(name, c, s))
            /\ presp' = PResp("create_product", s, Len(products) + 1, 201)
    /\ UNCHANGED categories

\* an update whose values carry a rating of 0.0 besides the form fields
update_product_rating_reset(s, p, name, c) ==
    /\ IF ~ActiveProduct(products, p)
       THEN /\ presp' = PResp("update_product", s, p, 404)
            /\ UNCHANGED products
       ELSE IF ~owner(products[p], s)
       THEN /\ presp' = PResp("update_product", s, p, 403)
            /\ UNCHANGED products
       ELSE IF ~ActiveCategory(c)
       THEN /\ presp' = PResp("update_product", s, p, 400)
            /\ UNCHANGED products
       ELSE /\ products' = [products EXCEPT ![p].name = name,
                                             ![p].category_id = c,
                                             ![p].rating = Zero]
            /\ presp' = PResp("update_product", s, p, 200)
    /\ UNCHANGED categories

\* products.py 118-150
update_product(s, p, name, c) ==
    /\ IF ~ActiveProduct(products, p)
       THEN /\ presp' = PResp("update_product", s, p, 404)
            /\ UNCHANGED products
       ELSE IF ~owner(products[p], s)
       THEN /\ presp' = PResp("update_product", s, p, 403)
            /\ UNCHANGED products
       ELSE IF ~ActiveCategory(c)
       THEN /\ presp' = PResp("update_product", s, p, 400)
            /\ UNCHANGED products
       ELSE /\ products' = [products EXCEPT ![p].name = name,
                                             ![p].category_id = c]
            /\ presp' = PResp("update_product", s, p, 200)
    /\ UNCHANGED categories

\* products.py 154-179
delete_product(s, p) ==
    /\ IF ~ActiveProduct(products, p)
       THEN /\ presp' = PResp("delete_product", s, p, 404)
            /\ UNCHANGED products
       ELSE IF ~owner(products[p], s)
       THEN /\ presp' = PResp("delete_product", s, p, 403)
            /\ UNCHANGED products
       ELSE /\ products' = [products EXCEPT ![p].is_active = FALSE]
            /\ presp' = PResp("delete_product", s, p, 200)
    /\ UNCHANGED categories

NextProducts ==
    /\ \/ \E s \in Sellers, n \in Names, c \in 1..(Len(categories) + 1) :
             create_product(s, n, c)
       \/ \E s \in Sellers, p \in 1..(Len(products) + 1), n \in Names,
             c \in 1..(Len(categories) + 1) : update_product(s, p, n, c)
       \/ \E s \in Sellers, p \in 1..(Len(products) + 1) : delete_product(s, p)
    /\ UNCHANGED <<reviews, req, authVars>>

(* ---------------------- create_review (POST /reviews/) ----------------- *)
\* review rows a request in flight may still insert
Pending == Cardinality({r \in Slots : req[r].pc \in {"cr_check", "cr_insert"}})

\* lines 72-79: load the active product, else 404
create_review_product(r, u, p, g) ==
    /\ ~InFlight(r)
    /\ Len(reviews) + Pending < MaxReviews
    /\ req' = [req EXCEPT ![r] =
         IF ActiveProduct(products, p)
         THEN [pc |-> "cr_check", op |-> "create", user |-> u, product |-> p,
               grade |-> g, review |-> 0, avg |-> Zero,
               loaded |-> products[p].rating]
         ELSE Finish("e404")]
    /\ UNCHANGED <<products, reviews>>

\* lines 81-91: has the buyer already reviewed the product, then 409
create_review_check(r) ==
    /\ req[r].pc = "cr_check"
    /\ req' = [req EXCEPT ![r] =
         IF UserReview(reviews, req[r].user, req[r].product)
         THEN Finish("e409")
         ELSE [req[r] EXCEPT !.pc = "cr_insert"]]
    /\ UNCHANGED <<products, reviews>>

\* lines 93-96: db.add, commit; an IntegrityError of the unique constraint
\* is not caught and ends the request with 500
create_review_commit(r) ==
    /\ req[r].pc = "cr_insert"
    /\ IF UniqueViolation(reviews, req[r].user, req[r].product)
       THEN /\ req' = [req EXCEPT ![r] = Finish("e500")]
            /\ UNCHANGED reviews
       ELSE /\ reviews' = Append(reviews,
                 [user_id |-> req[r].user, product_id |-> req[r].product,
                  grade |-> req[r].grade, is_active |-> TRUE])
            /\ req' = [req EXCEPT ![r].pc = "avg", ![r].review = Len(reviews) + 1]
    /\ UNCHANGED products

(* -------------------- remove_review (DELETE /reviews/{id}) ------------- *)
\* lines 114-122: load the active review, else 404
remove_review_select(r, rid) ==
    /\ ~InFlight(r)
    /\ req' = [req EXCEPT ![r] =
         IF ActiveReview(reviews, rid)
         THEN [NoReq EXCEPT !.pc = "rr_update", !.op = "remove",
                            !.review = rid,
                            !.product = reviews[rid].product_id]
         ELSE Finish("e404")]
    /\ UNCHANGED <<products, reviews>>

\* lines 124-128: update(Review).where(id == review_id).values(is_active=False)
remove_review_commit(r) ==
    /\ req[r].pc = "rr_update"
    /\ reviews' = [reviews EXCEPT ![req[r].review].is_active = FALSE]
    /\ req' = [req EXCEPT ![r].pc = "avg"]
    /\ UNCHANGED products

(* ------------------------ update_product_rating ------------------------ *)
\* lines 53-59: read the average grade of the active reviews
update_product_rating_avg(r) ==
    /\ req[r].pc = "avg"
    /\ req' = [req EXCEPT ![r].avg = AvgRating(reviews, req[r].product),
                          ![r].pc = IF req[r].loaded = NULL THEN "get" ELSE "set"]
    /\ UNCHANGED <<products, reviews>>

\* line 60: db.get(Product, product_id) selects the row unless the session
\* already holds it (create_review loaded it at line 72)
update_product_rating_get(r) ==
    /\ req[r].pc = "get"
    /\ req' = [req EXCEPT ![r].loaded = products[req[r].product].rating,
                          ![r].pc = "set"]
    /\ UNCHANGED <<products, reviews>>

\* the unit of work emits no UPDATE when the assigned value compares equal
\* to the loaded one: a Decimal average equals the loaded float only when
\* it is exactly representable
NoNetChange(avg, loaded) == avg = loaded /\ IsPow2(avg[2])

\* lines 61-62: product.rating = avg_rating; commit
update_product_rating_commit(r) ==
    /\ req[r].pc = "set"
    /\ products' = IF NoNetChange(req[r].avg, req[r].loaded)
                   THEN products
                   ELSE [products EXCEPT ![req[r].product].rating = req[r].avg]
    /\ req' = [req EXCEPT ![r] = Finish("ok")]
    /\ UNCHANGED reviews

(* --------------------------- specifications ---------------------------- *)
ReviewStep(r) ==
    \/ create_review_check(r)
    \/ create_review_commit(r)
    \/ remove_review_commit(r)
    \/ update_product_rating_avg(r)
    \/ update_product_rating_get(r)
    \/ update_product_rating_commit(r)

ReviewStart(r, B, G) ==
    \/ \E u \in B, p \in 1..(Len(products) + 1), g \in G :
          create_review_product(r, u, p, g)
    \/ \E rid \in 1..(Len(reviews) + 1) : remove_review_select(r, rid)

\* requests interleave at every await
Next ==
    /\ \E r \in Slots : ReviewStart(r, Buyers, Grades) \/ ReviewStep(r)
    /\ UNCHANGED <<authVars, catalogVars>>
Spec == InitReviews /\ [][Next]_vars

\* requests run one at a time
NextSeq ==
    /\ \E r \in Slots : (Quiet /\ ReviewStart(r, BuyersSeq, GradesSeq)) \/ ReviewStep(r)
    /\ UNCHANGED <<authVars, catalogVars>>
SpecSeq == InitReviews /\ [][NextSeq]_vars

\* registration, login, the refresh endpoints, the clock and the store
SpecAuth == InitUsers /\ [][NextAuth]_vars

\* create_user requests that interleave at every await
NextUsers ==
    /\ \E r \in RegSlots :
          \/ \E e \in Emails, pw \in Passwords, role \in Roles :
                create_user_check(r, e, pw, role)
          \/ create_user_commit(r)
    /\ UNCHANGED <<reviewVars, catalogVars>>
SpecUsers == InitUsers /\ [][NextUsers]_vars

\* review requests of one buyer and product requests of one seller, one
\* request at a time
NextShop ==
    \/ /\ (Quiet /\ ReviewStart(1, {1}, {MaxGrade})) \/ ReviewStep(1)
       /\ UNCHANGED <<authVars, catalogVars>>
    \/ /\ Quiet
       /\ \/ \E n \in Names, c \in 1..(Len(categories) + 1) :
                create_product(1, n, c)
          \/ \E p \in 1..(Len(products) + 1), n \in Names,
                c \in 1..(Len(categories) + 1) : update_product(1, p, n, c)
          \/ \E p \in 1..(Len(products) + 1) : delete_product(1, p)
       /\ UNCHANGED <<reviews, req, authVars>>
SpecShop == InitReviews /\ [][NextShop]_vars

\* the product handlers, one request at a time
SpecProducts == InitUsers /\ [][NextProducts]_vars

(* ======================= properties of the reviews ===================== *)
RECURSIVE GradeTotal(_)
GradeTotal(S) ==
    IF S = {} THEN 0
    ELSE LET i == CHOOSE x \in S : TRUE IN reviews[i].grade + GradeTotal(S \ {i})

ActiveRows(p) ==
    {i \in DOMAIN reviews : reviews[i].product_id = p /\ reviews[i].is_active = TRUE}

\* rating n/d of product p is the mean grade of its active reviews, 0.0 if none
RatingIsMean(p) ==
    LET S == ActiveRows(p)
        n == products[p].rating[1]
        d == products[p].rating[2]
    IN IF S = {} THEN n = 0 /\ d = 1
       ELSE d > 0 /\ n * Cardinality(S) = d * GradeTotal(S)

HasRow(u, p, g, a) ==
    \E i \in DOMAIN reviews :
        reviews[i] = [user_id |-> u, product_id |-> p, grade |-> g, is_active |-> a]

\* C1: with requests run one at a time, after every completed request each
\* product's rating is the mean grade of its active reviews (0.0 if none);
\* soft-deleted reviews do not contribute.
C1_RatingIsMeanWhenQuiet ==
    Quiet => \A p \in DOMAIN products : RatingIsMean(p)

\* grades 4 and 5 active, a soft-deleted 1: the rating is 4.5
C1_Witness ==
    /\ Quiet
    /\ \E p \in DOMAIN products :
         /\ \E u1, u2, u3 \in BuyersSeq :
               HasRow(u1, p, 4, TRUE) /\ HasRow(u2, p, 5, TRUE) /\ HasRow(u3, p, 1, FALSE)
         /\ Cardinality(ActiveRows(p)) = 2
         /\ products[p].rating = <<9, 2>>

\* C2: in every committed store state, also between the steps of a request,
\* each product's rating is the mean grade of its active reviews.
C2_RatingIsMeanAlways == \A p \in DOMAIN products : RatingIsMean(p)

\* C3: for every interleaving, once all requests have completed the rating
\* is the mean grade of the reviews active in the final state.
C3_RatingIsMeanAtEnd ==
    (\A r \in Slots : req[r].pc \in Terminal)
        => \A p \in DOMAIN products : RatingIsMean(p)

\* C4: at most one active review per (user_id, product_id) in every state.
C4_OneActivePerPair ==
    \A i, j \in DOMAIN reviews :
        (i # j /\ reviews[i].is_active /\ reviews[j].is_active)
            => <<reviews[i].user_id, reviews[i].product_id>>
                 # <<reviews[j].user_id, reviews[j].product_id>>

\* the store has refused a second insert for a pair that has an active review
C4_Witness ==
    /\ \E r \in Slots : req[r].pc = "e500"
    /\ \E i \in DOMAIN reviews : reviews[i].is_active

SameCreate(r1, r2) ==
    /\ r1 # r2
    /\ InFlight(r1) /\ InFlight(r2)
    /\ req[r1].op = "create" /\ req[r2].op = "create"
    /\ req[r1].user = req[r2].user
    /\ req[r1].product = req[r2].product

Inserted(q) == q.op = "create" /\ q.pc \in {"avg", "get", "set"}

\* C5: of two concurrent create_review requests by one user for one active
\* product at most one inserts its review, and the one that does not
\* succeed ends with 409 and with no other error.
C5_LoserGets409 ==
    [][\A r1, r2 \in Slots :
          SameCreate(r1, r2) =>
             /\ ~(Inserted(req'[r1]) /\ Inserted(req'[r2]))
             /\ (req'[r1].pc \in Terminal \ {"ok"}) => req'[r1].pc = "e409"]_vars

AnyRowOf(u, p) ==
    \E i \in DOMAIN reviews : reviews[i].user_id = u /\ reviews[i].product_id = p
ActiveRowOf(u, p) ==
    \E i \in DOMAIN reviews :
        reviews[i].user_id = u /\ reviews[i].product_id = p /\ reviews[i].is_active

\* C6 (as stated): the duplicate check of create_review answers 409 exactly
\* when an active review of the user for the product exists.
C6_DuplicateIffActive ==
    [][\A r \in Slots :
          (req[r].pc = "cr_check" /\ req'[r].pc # "cr_check")
             => (req'[r].pc = "e409" <=> ActiveRowOf(req[r].user, req[r].product))]_vars

\* C6 (amended): the duplicate check of create_review answers 409 exactly
\* when a review row of the user for the product exists, active or
\* soft-deleted; a user whose review was soft-deleted is still refused.
C6_DuplicateIffAnyRow ==
    [][\A r \in Slots :
          (req[r].pc = "cr_check" /\ req'[r].pc # "cr_check")
             => (req'[r].pc = "e409" <=> AnyRowOf(req[r].user, req[r].product))]_vars

\* one client created a review, had it soft-deleted and was refused again
C6_Witness ==
    \E r \in Slots :
        /\ req[r].pc = "e409"
        /\ \A o \in Slots \ {r} : req[o].pc = "idle"
        /\ Len(reviews) = 1
        /\ ~reviews[1].is_active

(* ==================== properties of the token refresh ================== *)
RefreshEndpoints == {"refresh-token", "new_token"}

UserRowOf(e) == {i \in DOMAIN users : users[i].email = e}

\* signature good, not expired, sub present, kind refresh, user active
ValidRefresh(t) ==
    /\ t.key = SECRET_KEY
    /\ t.payload.exp > now
    /\ t.payload.sub # NULL
    /\ t.payload.token_type = "refresh"
    /\ \E i \in UserRowOf(t.payload.sub) : users[i].is_active = TRUE

\* C7: refresh-token and new_token issue a token only for a validly signed,
\* unexpired refresh token with a sub naming an active user; every other
\* request ends with 401 and no token.
C7_IssueOnlyForValidRefresh ==
    resp.ep \in RefreshEndpoints =>
        /\ resp.status \in {200, 401}
        /\ resp.status = 200 => ValidRefresh(resp.presented)
        /\ ~ValidRefresh(resp.presented) =>
              resp.status = 401 /\ resp.token = NoToken /\ resp.access = NoToken

\* an unexpired, validly signed access token of an active user was refused
C7_Witness ==
    /\ resp.ep = "refresh-token"
    /\ resp.status = 401
    /\ resp.presented.key = SECRET_KEY
    /\ resp.presented.payload.token_type = "access"
    /\ resp.presented.payload.exp > now
    /\ \E i \in UserRowOf(resp.presented.payload.sub) : users[i].is_active

C9_OldTokenStillAccepted ==
    (/\ resp.ep \in RefreshEndpoints
     /\ resp.presented = held
     /\ used >= 1
     /\ held.payload.exp > now
     /\ \E i \in UserRowOf(held.payload.sub) : users[i].is_active)
        => resp.status = 200

\* exchanged twice at refresh-token and then accepted by new_token
C9_Witness ==
    /\ used >= 2
    /\ resp.ep = "new_token"
    /\ resp.presented = held
    /\ resp.status = 200

(* ================= properties of the product handlers ================== *)
\* C10: update_product and delete_product answer 404 for a missing or
\* inactive product before they look at the owner, answer 403 and leave the
\* products table unchanged for a seller who is not the owner, and succeed
\* only for the owner.
C10_OwnerOnly ==
    [][(presp' # presp /\ presp'.ep \in {"update_product", "delete_product"}) =>
          LET p == presp'.product
              s == presp'.actor
              live == p \in DOMAIN products /\ products[p].is_active
          IN /\ ~live => (presp'.status = 404 /\ products' = products)
             /\ (live /\ products[p].seller_id # s) =>
                   (presp'.status = 403 /\ products' = products)
             /\ presp'.status = 200 => (live /\ products[p].seller_id = s)]_vars

\* another seller's update of an active product was refused
C10_Witness ==
    /\ presp.ep = "update_product"
    /\ presp.status = 403
    /\ presp.product \in DOMAIN products
    /\ products[presp.product].is_active
    /\ products[presp.product].seller_id # presp.actor

(* ======================== properties of login ========================== *)
\* a user row with this email that is active and whose stored hash was made
\* from this password
Credentials(f) ==
    \E i \in DOMAIN users :
        /\ users[i].email = f.username
        /\ users[i].is_active = TRUE
        /\ users[i].hashed_password = <<"hash", f.password>>

\* C11: login returns an access/refresh pair exactly when an active user
\* with the email exists and the password verifies; otherwise it answers
\* 401 without a token, the same for an unknown email, a deactivated user
\* and a wrong password.
C11_LoginIffCredentials ==
    resp.ep = "login" =>
        IF Credentials(resp.form)
        THEN /\ resp.status = 200
             /\ resp.token.key = SECRET_KEY
             /\ resp.token.payload.token_type = "refresh"
             /\ resp.access.key = SECRET_KEY
             /\ resp.access.payload.token_type = "access"
             /\ resp.token.payload.sub = resp.form.username
             /\ resp.access.payload.sub = resp.form.username
        ELSE [resp EXCEPT !.form = NoForm] =
                [ep |-> "login", form |-> NoForm, presented |-> NoToken,
                 status |-> 401, token |-> NoToken, access |-> NoToken]

\* a deactivated user with the right password was refused
C11_Witness ==
    /\ resp.ep = "login"
    /\ resp.status = 401
    /\ \E i \in DOMAIN users :
          /\ users[i].email = resp.form.username
          /\ ~users[i].is_active
          /\ users[i].hashed_password = <<"hash", resp.form.password>>

(* ==================== properties of remove_review ====================== *)
\* the two rows agree on every field but is_active
SameButActive(a, b) == [a EXCEPT !.is_active = b.is_active] = b

\* C12: remove_review never removes a review row.  A request for a missing
\* or soft-deleted id goes no further than its lookup and ends with 404,
\* leaving reviews and ratings unchanged; a request for an active review
\* flips is_active of that row only, and when it completes the product's
\* rating is the mean grade of the remaining active reviews.
C12_SoftDeleteOnly ==
    [][/\ Len(reviews') >= Len(reviews)
       /\ \A i \in DOMAIN reviews : SameButActive(reviews'[i], reviews[i])
       /\ \A r \in Slots :
            \* the lookup lets only an active review through
            /\ (~InFlight(r) /\ req'[r].pc = "rr_update") =>
                  /\ req'[r].review \in DOMAIN reviews
                  /\ reviews[req'[r].review].is_active
                  /\ reviews' = reviews /\ products' = products
            \* 404 changes nothing
            /\ (~InFlight(r) /\ req'[r] # req[r] /\ req'[r].pc = "e404") =>
                  (reviews' = reviews /\ products' = products)
            \* the update flips is_active of the one row
            /\ (req[r].pc = "rr_update" /\ req'[r].pc # "rr_update") =>
                  /\ reviews[req[r].review].is_active
                  /\ reviews' = [reviews EXCEPT ![req[r].review].is_active = FALSE]
                  /\ products' = products
            \* the request ends with the rating recomputed
            /\ (req[r].op = "remove" /\ req'[r].pc = "ok") =>
                  /\ reviews' = reviews
                  /\ ~reviews[req[r].review].is_active
                  /\ LET S == ActiveRows(req[r].product)
                         n == products'[req[r].product].rating[1]
                         d == products'[req[r].product].rating[2]
                     IN IF S = {} THEN n = 0 /\ d = 1
                        ELSE d > 0 /\ n * Cardinality(S) = d * GradeTotal(S)
                  /\ \A p \in DOMAIN products :
                        p # req[r].product => products'[p] = products[p]]_vars

\* a review has been soft-deleted next to one that stays active, and the
\* request is about to recompute the rating
C12_Witness ==
    \E r \in Slots :
        /\ req[r].op = "remove"
        /\ req[r].pc = "avg"
        /\ ~reviews[req[r].review].is_active
        /\ \E i \in DOMAIN reviews :
              /\ reviews[i].is_active
              /\ reviews[i].product_id = req[r].product

(* ===================== properties of create_user ======================= *)
EmailHeld(e) == \E i \in DOMAIN users : users[i].email = e

\* C13: user emails are unique.  A create_user request whose email is held
\* by a user row ends with 400 at its lookup and adds no user, only an
\* email that no row holds goes on to the insert, and after every step of
\* any interleaving no two user rows share an email.
C13_UniqueEmail ==
    [][/\ \A i, j \in DOMAIN users' :
             i # j => users'[i].email # users'[j].email
       /\ \A i \in DOMAIN users : users'[i] = users[i]
       /\ \A r \in RegSlots :
            /\ (reg[r].pc # "insert" /\ reg'[r].pc = "insert") =>
                  (~EmailHeld(reg'[r].email) /\ users' = users)
            /\ (reg'[r] # reg[r] /\ reg'[r].pc = "400") =>
                  (users # <<>> /\ users' = users)]_vars

\* a registration was refused with 400 while another lost the race for
\* the same email at commit
C13_Witness ==
    /\ Len(users) = 1
    /\ \E r1, r2 \in RegSlots : reg[r1].pc = "400" /\ reg[r2].pc = "500"

(* ================== properties of the product rating =================== *)
\* C14: Product.rating is written by the rating recomputation only.  A row
\* added by create_product starts with rating 0.0, a products request
\* leaves every rating of an existing product and every review row
\* unchanged, and a step that changes a rating is the commit of
\* update_product_rating writing the average it has read.
C14_RatingWrittenByRecomputeOnly ==
    [][/\ \A p \in DOMAIN products :
             products'[p].rating # products[p].rating =>
                \E r \in Slots :
                    /\ req[r].pc = "set" /\ req'[r].pc = "ok"
                    /\ req[r].product = p
                    /\ products'[p].rating = req[r].avg
                    /\ presp' = presp
       /\ \A p \in DOMAIN products' \ DOMAIN products :
             products'[p].rating = <<0, 1>>
       /\ presp' # presp =>
             /\ reviews' = reviews
             /\ \A p \in DOMAIN products :
                   products'[p].rating = products[p].rating]_vars

\* the owner has deleted a product that was reviewed: its rating stays
C14_Witness ==
    /\ presp.ep = "delete_product"
    /\ presp.status = 200
    /\ presp.product \in DOMAIN products
    /\ ~products[presp.product].is_active
    /\ products[presp.product].rating # <<0, 1>>
    /\ ActiveRows(presp.product) # {}

====
